---- MODULE Spec2Model ----
(***************************************************************************)
(* A model of package mysqltsv (src/mysqltsv.go): the Encoder that writes  *)
(* LOAD DATA INFILE tab separated values through a bufio.Writer, the field *)
(* escaper escapeField and the value converter valueToBytes.               *)
(*                                                                         *)
(* Bytes are the naturals 0..255.  A Go byte slice is a record             *)
(* [isnil, b]: Go tells a nil slice from an empty one (data == nil).       *)
(* A Go error is a string, NoErr standing for the nil error.               *)
(***************************************************************************)
EXTENDS Integers, Sequences, FiniteSets, TLC

VARIABLES
    w,                 \* Encoder.w: the bufio.Writer, [buf, err]
    numColumnsPerRow,  \* Encoder.numColumnsPerRow
    colsLeftInRow,     \* Encoder.colsLeftInRow
    err,               \* Encoder.err, the latched error
    encoderOptions,    \* Encoder.encoderOptions
    sink,              \* the bytes the io.Writer under w has received
    sinkBudget,        \* the sink fails once it holds this many bytes (-1: never)
    logical,           \* history: wire form and terminator of every field appended
    nFields,           \* history: number of fields handed to writeField
    last,              \* history: the last call, its argument and what it returned
    value,             \* the value given to EscapeValue
    cfg,               \* the options given to EscapeValue
    conv,              \* what valueToBytes returned for value
    wire,              \* what EscapeValue returned for value
    read,              \* what the LOAD DATA reader makes of wire
    pc                 \* position of the one-shot escape

vars == <<w, numColumnsPerRow, colsLeftInRow, err, encoderOptions, sink,
          sinkBudget, logical, nFields, last, value, cfg, conv, wire, read, pc>>

encVars == <<w, numColumnsPerRow, colsLeftInRow, err, encoderOptions, sink,
             sinkBudget, logical, nFields, last>>

valVars == <<value, cfg, conv, wire, read, pc>>

----------------------------------------------------------------------------
(* Bounds *)

BufSize == 4
MaxFields == 3
MaxCols == 2
MaxBudget == 9
MaxLen == 3

----------------------------------------------------------------------------
(* Bytes and errors *)

Byte == 0..255

TAB == 9
NL == 10
QUOTE == 34
BACKSLASH == 92

NoErr == "nil"
ErrUnsupported == "can't encode type to TSV"
ErrValuer == "Valuer.Value failed"
ErrSink == "sink write failed"

NilSlice == [isnil |-> TRUE, b |-> <<>>]

Slice(s) == [isnil |-> FALSE, b |-> s]

Min(a, b) == IF a < b THEN a ELSE b

Max(a, b) == IF a > b THEN a ELSE b

----------------------------------------------------------------------------
(* Go values (the `any` argument of AppendValue and EscapeValue).          *)
(* kind is the dynamic type of the value, or, when valuer is TRUE, of what *)
(* its Value() method returns; verr says that Value() fails.               *)

NoTime == [unix |-> 0, nsec |-> 0, off |-> 0]

GoValue(k, nl, bs, num, tm) ==
    [kind |-> k, valuer |-> FALSE, verr |-> FALSE, isnil |-> nl, b |-> bs, n |-> num, t |-> tm]

NilV == GoValue("nil", TRUE, <<>>, 0, NoTime)

StringV(s) == GoValue("string", FALSE, s, 0, NoTime)

BytesV(sl) == GoValue("[]byte", sl.isnil, sl.b, 0, NoTime)

RawJSONV(sl) == GoValue("json.RawMessage", sl.isnil, sl.b, 0, NoTime)

IntV(k, num) == GoValue(k, FALSE, <<>>, num, NoTime)

BoolV(bl) == GoValue("bool", FALSE, <<>>, IF bl THEN 1 ELSE 0, NoTime)

TimeV(tm) == GoValue("time.Time", FALSE, <<>>, 0, tm)

FloatV == GoValue("float64", FALSE, <<>>, 0, NoTime)

Valuer(v) == [v EXCEPT !.valuer = TRUE]

FailingValuer(v) == [v EXCEPT !.valuer = TRUE, !.verr = TRUE]

NoOptions == [isnil |-> TRUE, locnil |-> TRUE, off |-> 0]

NoLocation == [isnil |-> FALSE, locnil |-> TRUE, off |-> 0]

InLocation(o) == [isnil |-> FALSE, locnil |-> FALSE, off |-> o]

----------------------------------------------------------------------------
(* strconv.FormatInt / FormatUint in base 10, as ASCII bytes *)

RECURSIVE FormatUint(_)
FormatUint(n) ==
    IF n < 10 THEN <<48 + n>> ELSE FormatUint(n \div 10) \o <<48 + (n % 10)>>

FormatInt(n) == IF n < 0 THEN <<45>> \o FormatUint(0 - n) ELSE FormatUint(n)

----------------------------------------------------------------------------
(* package time: a Time is an instant (unix seconds, nanoseconds) and the  *)
(* offset of its location; In changes the location, Clock, Date and Format *)
(* read the wall clock of the instant in that location.                    *)

In(t, o) == [t EXCEPT !.off = o]

WallSec(t) == t.unix + t.off

SecOfDay(t) == WallSec(t) % 86400

Clock(t) ==
    [hour |-> SecOfDay(t) \div 3600,
     min  |-> (SecOfDay(t) % 3600) \div 60,
     sec  |-> SecOfDay(t) % 60]

Nanosecond(t) == t.nsec

\* The civil date of day number WallSec \div 86400 (days since 1970-01-01).
Date(t) ==
    LET z   == (WallSec(t) \div 86400) + 719468
        era == z \div 146097
        doe == z - era * 146097
        yoe == (doe - doe \div 1460 + doe \div 36524 - doe \div 146096) \div 365
        doy == doe - (365 * yoe + yoe \div 4 - yoe \div 100)
        mp  == (5 * doy + 2) \div 153
        d   == doy - (153 * mp + 2) \div 5 + 1
        m   == IF mp < 10 THEN mp + 3 ELSE mp - 9
        y   == yoe + era * 400 + (IF m <= 2 THEN 1 ELSE 0)
    IN  [year |-> y, month |-> m, day |-> d]

\* n in decimal, zero padded to width digits
RECURSIVE Pad(_, _)
Pad(n, width) ==
    IF width = 0 THEN <<>> ELSE Pad(n \div 10, width - 1) \o <<48 + (n % 10)>>

\* layout "2006-01-02"
FormatDate(t) ==
    LET d == Date(t)
    IN  Pad(d.year, 4) \o <<45>> \o Pad(d.month, 2) \o <<45>> \o Pad(d.day, 2)

\* layout "2006-01-02 15:04:05"
FormatDateTime(t) ==
    LET c == Clock(t)
    IN  FormatDate(t) \o <<32>> \o Pad(c.hour, 2) \o <<58>> \o Pad(c.min, 2)
                      \o <<58>> \o Pad(c.sec, 2)

\* the digits of a ".999999999" element: nine digits, trailing zeros removed
RECURSIVE TrimZeros(_)
TrimZeros(s) ==
    IF Len(s) > 0 /\ s[Len(s)] = 48 THEN TrimZeros(SubSeq(s, 1, Len(s) - 1)) ELSE s

\* layout "2006-01-02 15:04:05.999999999": no fraction at all when it is zero
FormatDateTimeNano(t) ==
    LET frac == TrimZeros(Pad(t.nsec, 9))
    IN  FormatDateTime(t) \o (IF frac = <<>> THEN <<>> ELSE <<46>> \o frac)

----------------------------------------------------------------------------
(* valueToBytes: [b |-> slice, err |-> error] *)

UnsignedKinds == {"uint8", "uint16", "uint32", "uint64", "uint"}

SignedKinds == {"int8", "int16", "int32", "int64", "int"}

\* faulty variant: the layout and the digits are taken from the value's own zone
timeToBytesNoZone(t, c) ==
    LET cl == Clock(t)
    IN  IF cl.hour = 0 /\ cl.min = 0 /\ cl.sec = 0 /\ t.nsec = 0
        THEN FormatDate(t)
        ELSE IF t.nsec = 0
        THEN FormatDateTime(t)
        ELSE FormatDateTimeNano(t)

timeToBytes(t, c) ==
    LET v    == IF ~c.isnil /\ ~c.locnil THEN In(t, c.off) ELSE t
        cl   == Clock(v)
        nsec == Nanosecond(v)
    IN  IF cl.hour = 0 /\ cl.min = 0 /\ cl.sec = 0 /\ nsec = 0
        THEN FormatDate(v)
        ELSE IF nsec = 0
        THEN FormatDateTime(v)
        ELSE FormatDateTimeNano(v)

valueToBytes(v, c) ==
    IF v.valuer /\ v.verr THEN [b |-> NilSlice, err |-> ErrValuer]
    ELSE CASE v.kind = "string"          -> [b |-> Slice(v.b), err |-> NoErr]
           [] v.kind = "[]byte"          -> [b |-> [isnil |-> v.isnil, b |-> v.b], err |-> NoErr]
           [] v.kind = "json.RawMessage" -> [b |-> [isnil |-> v.isnil, b |-> v.b], err |-> NoErr]
           [] v.kind \in UnsignedKinds   -> [b |-> Slice(FormatUint(v.n)), err |-> NoErr]
           [] v.kind \in SignedKinds     -> [b |-> Slice(FormatInt(v.n)), err |-> NoErr]
           [] v.kind = "nil"             -> [b |-> NilSlice, err |-> NoErr]
           [] v.kind = "bool"            -> [b |-> Slice(IF v.n = 1 THEN <<49>> ELSE <<48>>), err |-> NoErr]
           [] v.kind = "time.Time"       -> [b |-> Slice(timeToBytes(v.t, c)), err |-> NoErr]
           [] OTHER                      -> [b |-> NilSlice, err |-> ErrUnsupported]

----------------------------------------------------------------------------
(* escapeField.  appendTo is the empty slice the result is appended to;    *)
(* its capacity only decides where the result is allocated.                *)

\* faulty variant: the case for the backslash is missing
escapeByteNoBackslash(c) ==
    CASE c = 0         -> <<BACKSLASH, 48>>
      [] c = 8         -> <<BACKSLASH, 98>>
      [] c = NL        -> <<BACKSLASH, 110>>
      [] c = 13        -> <<BACKSLASH, 114>>
      [] c = TAB       -> <<BACKSLASH, 116>>
      [] c = 26        -> <<BACKSLASH, 90>>
      [] c = QUOTE     -> <<BACKSLASH, QUOTE>>
      [] OTHER         -> <<c>>

escapeByte(c) ==
    CASE c = 0         -> <<BACKSLASH, 48>>
      [] c = 8         -> <<BACKSLASH, 98>>
      [] c = NL        -> <<BACKSLASH, 110>>
      [] c = 13        -> <<BACKSLASH, 114>>
      [] c = TAB       -> <<BACKSLASH, 116>>
      [] c = 26        -> <<BACKSLASH, 90>>
      [] c = BACKSLASH -> <<BACKSLASH, BACKSLASH>>
      [] c = QUOTE     -> <<BACKSLASH, QUOTE>>
      [] OTHER         -> <<c>>

RECURSIVE escapeBytes(_)
escapeBytes(s) ==
    IF s = <<>> THEN <<>> ELSE escapeByte(Head(s)) \o escapeBytes(Tail(s))

\* faulty variant: len(data) == 0 in place of data == nil
escapeFieldEmptyIsNull(appendTo, data) ==
    IF data.b = <<>> THEN <<BACKSLASH, 78>>
    ELSE appendTo \o <<QUOTE>> \o escapeBytes(data.b) \o <<QUOTE>>

escapeField(appendTo, data) ==
    IF data.isnil THEN <<BACKSLASH, 78>>
    ELSE appendTo \o <<QUOTE>> \o escapeBytes(data.b) \o <<QUOTE>>

EscapeValue(v, c) ==
    LET r == valueToBytes(v, c)
    IN  IF r.err # NoErr THEN [b |-> <<>>, err |-> r.err]
        ELSE [b |-> escapeField(<<>>, r.b), err |-> NoErr]

----------------------------------------------------------------------------
(* The LOAD DATA reader of one field written under Escaping (FIELDS        *)
(* OPTIONALLY ENCLOSED BY '"' ESCAPED BY '\\'): \N alone is NULL; inside   *)
(* the quotes a backslash and the byte after it stand for one byte, and    *)
(* the first quote that is not escaped ends the field.                     *)

unescapeByte(c) ==
    CASE c = 48  -> 0
      [] c = 98  -> 8
      [] c = 110 -> NL
      [] c = 114 -> 13
      [] c = 116 -> TAB
      [] c = 90  -> 26
      [] OTHER   -> c

\* [b |-> the bytes read, rest |-> what follows the closing quote, ok |-> a closing quote was found]
RECURSIVE readQuoted(_)
readQuoted(s) ==
    IF s = <<>> THEN [b |-> <<>>, rest |-> <<>>, ok |-> FALSE]
    ELSE IF Head(s) = QUOTE THEN [b |-> <<>>, rest |-> Tail(s), ok |-> TRUE]
    ELSE IF Head(s) = BACKSLASH /\ Len(s) >= 2
         THEN LET r == readQuoted(SubSeq(s, 3, Len(s)))
              IN  [r EXCEPT !.b = <<unescapeByte(s[2])>> \o r.b]
         ELSE LET r == readQuoted(Tail(s))
              IN  [r EXCEPT !.b = <<Head(s)>> \o r.b]

\* [isnil, b, ok]: ok says the whole of field was one well-formed field
unescape(field) ==
    IF field = <<BACKSLASH, 78>> THEN [isnil |-> TRUE, b |-> <<>>, ok |-> TRUE]
    ELSE IF field # <<>> /\ Head(field) = QUOTE
         THEN LET r == readQuoted(Tail(field))
              IN  [isnil |-> FALSE, b |-> r.b, ok |-> r.ok /\ r.rest = <<>>]
         ELSE [isnil |-> FALSE, b |-> field, ok |-> FALSE]

----------------------------------------------------------------------------
(* The sink: an io.Writer that takes bytes until it holds sinkBudget of    *)
(* them and fails from then on, with the bytes that still fitted written.  *)

sinkWrite(snk, p) ==
    LET room == IF sinkBudget < 0 THEN Len(p) ELSE Min(Len(p), Max(0, sinkBudget - Len(snk)))
    IN  [sink |-> snk \o SubSeq(p, 1, room),
         n    |-> room,
         err  |-> IF room < Len(p) THEN ErrSink ELSE NoErr]

----------------------------------------------------------------------------
(* bufio.Writer over the sink: b = [buf, err, sink], buf the buffered      *)
(* bytes b.buf[0:b.n], err the writer's sticky error.  Each operation      *)
(* returns the writer after it and the error it returns.                   *)

Available(b) == BufSize - Len(b.buf)

Buffered(b) == Len(b.buf)

AvailableBuffer(b) == <<>>

Flush(b) ==
    IF b.err # NoErr THEN [b |-> b, err |-> b.err]
    ELSE IF Len(b.buf) = 0 THEN [b |-> b, err |-> NoErr]
    ELSE LET r == sinkWrite(b.sink, b.buf)
         IN  IF r.err # NoErr
             THEN [b   |-> [buf |-> SubSeq(b.buf, r.n + 1, Len(b.buf)), err |-> r.err, sink |-> r.sink],
                   err |-> r.err]
             ELSE [b |-> [buf |-> <<>>, err |-> NoErr, sink |-> r.sink], err |-> NoErr]

RECURSIVE Write(_, _)
Write(b, p) ==
    IF Len(p) > Available(b) /\ b.err = NoErr
    THEN IF Buffered(b) = 0
         THEN LET r == sinkWrite(b.sink, p)
              IN  Write([b EXCEPT !.sink = r.sink, !.err = r.err], SubSeq(p, r.n + 1, Len(p)))
         ELSE LET n == Available(b)
                  f == Flush([b EXCEPT !.buf = b.buf \o SubSeq(p, 1, n)])
              IN  Write(f.b, SubSeq(p, n + 1, Len(p)))
    ELSE IF b.err # NoErr THEN [b |-> b, err |-> b.err]
    ELSE [b |-> [b EXCEPT !.buf = b.buf \o p], err |-> NoErr]

WriteByte(b, c) ==
    IF b.err # NoErr THEN [b |-> b, err |-> b.err]
    ELSE LET f == IF Available(b) <= 0 THEN Flush(b) ELSE [b |-> b, err |-> NoErr]
         IN  IF f.err # NoErr THEN [b |-> f.b, err |-> f.b.err]
             ELSE [b |-> [f.b EXCEPT !.buf = f.b.buf \o <<c>>], err |-> NoErr]

----------------------------------------------------------------------------
(* The Encoder.  An encoder state e is [b, colsLeftInRow, err]: the        *)
(* bufio.Writer with its sink, the column counter and the latched error.   *)

Enc == [b |-> [buf |-> w.buf, err |-> w.err, sink |-> sink],
        colsLeftInRow |-> colsLeftInRow,
        err |-> err]

\* faulty variant: the counter is not reset at the end of a row
writeFieldNoReset(e, data) ==
    LET wr == Write(e.b, escapeField(AvailableBuffer(e.b), data))
    IN  IF wr.err # NoErr THEN [e EXCEPT !.b = wr.b, !.err = wr.err]
        ELSE LET left == e.colsLeftInRow - 1
                 t    == WriteByte(wr.b, IF left = 0 THEN NL ELSE TAB)
             IN  [b |-> t.b, colsLeftInRow |-> left, err |-> t.err]

\* faulty variant: the counter is tested before it is decremented
writeFieldTestFirst(e, data) ==
    LET wr == Write(e.b, escapeField(AvailableBuffer(e.b), data))
    IN  IF wr.err # NoErr THEN [e EXCEPT !.b = wr.b, !.err = wr.err]
        ELSE IF e.colsLeftInRow = 0
             THEN LET t == WriteByte(wr.b, NL)
                  IN  [b |-> t.b, colsLeftInRow |-> numColumnsPerRow, err |-> t.err]
             ELSE LET t == WriteByte(wr.b, TAB)
                  IN  [b |-> t.b, colsLeftInRow |-> e.colsLeftInRow - 1, err |-> t.err]

\* faulty variant: the terminator is written before the field
writeFieldTermFirst(e, data) ==
    LET left == e.colsLeftInRow - 1
        t    == WriteByte(e.b, IF left = 0 THEN NL ELSE TAB)
        wr   == Write(t.b, escapeField(AvailableBuffer(t.b), data))
    IN  [b |-> wr.b,
         colsLeftInRow |-> IF left = 0 THEN numColumnsPerRow ELSE left,
         err |-> wr.err]

writeField(e, data) ==
    LET buf == AvailableBuffer(e.b)
        wr  == Write(e.b, escapeField(buf, data))
    IN  IF wr.err # NoErr THEN [e EXCEPT !.b = wr.b, !.err = wr.err]
        ELSE LET left == e.colsLeftInRow - 1
             IN  IF left = 0
                 THEN LET t == WriteByte(wr.b, NL)
                      IN  [b |-> t.b, colsLeftInRow |-> numColumnsPerRow, err |-> t.err]
                 ELSE LET t == WriteByte(wr.b, TAB)
                      IN  [b |-> t.b, colsLeftInRow |-> left, err |-> t.err]

\* faulty variant: the latched error is not looked at
AppendBytesNoGuard(e, data) == writeField(e, data)

AppendBytesOp(e, data) ==
    IF e.err # NoErr THEN e ELSE writeField(e, data)

AppendStringOp(e, s) == AppendBytesOp(e, Slice(s))

\* faulty variant: the return after a conversion error is missing
AppendValueNoReturn(e, v) ==
    IF e.err # NoErr THEN e
    ELSE LET r == valueToBytes(v, encoderOptions)
         IN  IF r.err # NoErr THEN [writeField(e, r.b) EXCEPT !.err = r.err]
             ELSE writeField(e, r.b)

AppendValueOp(e, v) ==
    IF e.err # NoErr THEN e
    ELSE LET r == valueToBytes(v, encoderOptions)
         IN  IF r.err # NoErr THEN [e EXCEPT !.err = r.err]
             ELSE writeField(e, r.b)

\* faulty variant: Close does not flush
CloseNoFlush(e) == [e |-> e, ret |-> e.err]

\* faulty variant: Close flushes before it looks at the latched error
CloseAlwaysFlush(e) ==
    LET f == Flush(e.b)
    IN  IF e.err # NoErr THEN [e |-> [e EXCEPT !.b = f.b], ret |-> e.err]
        ELSE [e |-> [e EXCEPT !.b = f.b], ret |-> f.err]

\* [e |-> the encoder after the call, ret |-> the error Close returns]
CloseOp(e) ==
    IF e.err # NoErr THEN [e |-> e, ret |-> e.err]
    ELSE LET f == Flush(e.b)
         IN  IF f.err # NoErr THEN [e |-> [e EXCEPT !.b = f.b], ret |-> f.err]
             ELSE [e |-> [e EXCEPT !.b = f.b], ret |-> NoErr]

ErrorOp(e) == e.err

----------------------------------------------------------------------------
(* Inputs *)

RawInputs == {NilSlice, Slice(<<>>), Slice(<<TAB>>), Slice(<<65, NL, QUOTE>>)}

StringInputs == {<<>>, <<78>>}

\* 2024-02-29 23:00:00 UTC, which is 2024-03-01 00:00:00 one hour east
LeapDayEvening == [unix |-> 1709247600, nsec |-> 0, off |-> 0]

AppendInputs ==
    {NilV, BytesV(NilSlice), StringV(<<>>), IntV("int8", 0 - 12), BoolV(TRUE),
     TimeV(LeapDayEvening), FloatV, Valuer(BoolV(TRUE)), FailingValuer(IntV("int", 1))}

OptionInputs == {InLocation(3600)}

\* the terminator written after the i-th field of the stream
Term(i) == IF numColumnsPerRow >= 1 /\ i % numColumnsPerRow = 0 THEN NL ELSE TAB

----------------------------------------------------------------------------
(* The encoder's specification *)

NoValue == [b |-> <<>>, err |-> NoErr]

NoField == [isnil |-> FALSE, b |-> <<>>, ok |-> FALSE]

ValIdle ==
    /\ value = NilV
    /\ cfg = NoOptions
    /\ conv = [b |-> NilSlice, err |-> NoErr]
    /\ wire = NoValue
    /\ read = NoField
    /\ pc = "idle"

\* NewEncoder(sink, numColumns, cfg)
Init ==
    /\ w = [buf |-> <<>>, err |-> NoErr]
    /\ numColumnsPerRow \in 0..MaxCols
    /\ colsLeftInRow = numColumnsPerRow
    /\ err = NoErr
    /\ encoderOptions \in OptionInputs
    /\ sink = <<>>
    /\ sinkBudget \in (0 - 1)..MaxBudget
    /\ logical = <<>>
    /\ nFields = 0
    /\ last = [op |-> "NewEncoder", ret |-> NoErr]
    /\ ValIdle

Commit(e) ==
    /\ w' = [buf |-> e.b.buf, err |-> e.b.err]
    /\ sink' = e.b.sink
    /\ colsLeftInRow' = e.colsLeftInRow
    /\ err' = e.err
    /\ UNCHANGED <<numColumnsPerRow, encoderOptions, sinkBudget, valVars>>

\* the history of an append whose field has the wire form field
Record(field) ==
    IF err # NoErr THEN UNCHANGED <<logical, nFields>>
    ELSE /\ logical' = logical \o field \o <<Term(nFields + 1)>>
         /\ nFields' = nFields + 1

MayAppend == err # NoErr \/ nFields < MaxFields

AppendBytes(data) ==
    /\ MayAppend
    /\ Commit(AppendBytesOp(Enc, data))
    /\ Record(escapeField(<<>>, data))
    /\ last' = [op |-> "Append", ret |-> NoErr]

AppendString(s) ==
    /\ MayAppend
    /\ Commit(AppendStringOp(Enc, s))
    /\ Record(EscapeValue(StringV(s), encoderOptions).b)
    /\ last' = [op |-> "Append", ret |-> NoErr]

AppendValue(v) ==
    /\ MayAppend
    /\ Commit(AppendValueOp(Enc, v))
    /\ LET x == EscapeValue(v, encoderOptions)
       IN  IF x.err # NoErr THEN UNCHANGED <<logical, nFields>> ELSE Record(x.b)
    /\ last' = [op |-> "Append", ret |-> NoErr]

Close ==
    /\ Commit(CloseOp(Enc).e)
    /\ last' = [op |-> "Close", ret |-> CloseOp(Enc).ret]
    /\ UNCHANGED <<logical, nFields>>

Error ==
    /\ last' = [op |-> "Error", ret |-> ErrorOp(Enc)]
    /\ UNCHANGED <<w, numColumnsPerRow, colsLeftInRow, err, encoderOptions, sink,
                   sinkBudget, logical, nFields, valVars>>

Next ==
    \/ \E data \in RawInputs : AppendBytes(data)
    \/ \E s \in StringInputs : AppendString(s)
    \/ \E v \in AppendInputs : AppendValue(v)
    \/ Close
    \/ Error

Spec == Init /\ [][Next]_vars

----------------------------------------------------------------------------
(* The one-shot escape: EscapeValue(value, cfg), and the reader's view of  *)
(* what it returns.                                                        *)

SampleBytes == {0, 8, TAB, NL, 13, 26, QUOTE, BACKSLASH, 78, 48, 65, 110, 222, 255}

RECURSIVE SeqsUpTo(_, _)
SeqsUpTo(S, n) ==
    IF n = 0 THEN {<<>>}
    ELSE LET shorter == SeqsUpTo(S, n - 1)
         IN  shorter \cup {Append(q, x) : q \in shorter, x \in S}

ByteSeqInputs == SeqsUpTo(SampleBytes, MaxLen) \cup {<<c>> : c \in Byte}

\* 1970-01-01, 2000-01-01, 2023-12-31 23:00:00, 2024-02-29 and 2024-12-31 (UTC)
InstantInputs ==
    {0, 946684800, 1704063600, 1709164800, 1709164801, 1709168461,
     1709247600, 1709251199, 1735603200}

NanoInputs == {0, 1, 1000, 120000000, 500000000, 123456789, 999999999}

OffsetInputs == {0, 3600, 0 - 18000}

TimeInputs ==
    {[unix |-> u, nsec |-> ns, off |-> o] :
        u \in InstantInputs, ns \in NanoInputs, o \in OffsetInputs}

ScalarInputs ==
    {NilV, BoolV(TRUE), BoolV(FALSE), FloatV,
     IntV("uint8", 255), IntV("int8", 0 - 128), IntV("uint16", 65535),
     IntV("int16", 0 - 1), IntV("uint32", 1000000), IntV("int32", 0 - 2147483647),
     IntV("uint64", 2147483647), IntV("int64", 0), IntV("int", 0 - 10), IntV("uint", 907)}

PlainInputs ==
    {BytesV(NilSlice), RawJSONV(NilSlice)}
        \cup {BytesV(Slice(q)) : q \in ByteSeqInputs}
        \cup {StringV(q) : q \in SeqsUpTo(SampleBytes, 1)}
        \cup {RawJSONV(Slice(q)) : q \in SeqsUpTo(SampleBytes, 1)}
        \cup ScalarInputs

ValueInputs ==
    PlainInputs
        \cup {Valuer(v) : v \in ScalarInputs \cup {StringV(<<>>), BytesV(NilSlice)}}
        \cup {FailingValuer(v) : v \in {NilV, IntV("int", 1), StringV(<<65>>)}}

CfgInputs == {NoOptions, NoLocation, InLocation(0), InLocation(3600), InLocation(0 - 7200)}

EncIdle ==
    /\ w = [buf |-> <<>>, err |-> NoErr]
    /\ numColumnsPerRow = 1
    /\ colsLeftInRow = 1
    /\ err = NoErr
    /\ encoderOptions = NoOptions
    /\ sink = <<>>
    /\ sinkBudget = 0 - 1
    /\ logical = <<>>
    /\ nFields = 0
    /\ last = [op |-> "none", ret |-> NoErr]

InitValue ==
    /\ \/ value \in ValueInputs /\ cfg \in {NoOptions, InLocation(3600)}
       \/ value \in {TimeV(t) : t \in TimeInputs} /\ cfg \in CfgInputs
       \/ value \in {Valuer(TimeV(t)) : t \in TimeInputs} /\ cfg = InLocation(3600)
    /\ conv = [b |-> NilSlice, err |-> NoErr]
    /\ wire = NoValue
    /\ read = NoField
    /\ pc = "start"
    /\ EncIdle

\* b, err := valueToBytes(v, cfg), the first statement of EscapeValue
Convert ==
    /\ pc = "start"
    /\ conv' = valueToBytes(value, cfg)
    /\ pc' = "converted"
    /\ UNCHANGED <<value, cfg, wire, read, encVars>>

\* EscapeValue returns
Escape ==
    /\ pc = "converted"
    /\ wire' = EscapeValue(value, cfg)
    /\ pc' = "escaped"
    /\ UNCHANGED <<value, cfg, conv, read, encVars>>

\* the reader reads the field EscapeValue returned
Read ==
    /\ pc = "escaped"
    /\ wire.err = NoErr
    /\ read' = unescape(wire.b)
    /\ pc' = "read"
    /\ UNCHANGED <<value, cfg, conv, wire, encVars>>

NextValue == Convert \/ Escape \/ Read

SpecValue == InitValue /\ [][NextValue]_vars

----------------------------------------------------------------------------
(* Properties of the encoder *)

Count(s, c) == Cardinality({i \in 1..Len(s) : s[i] = c})

IsPrefix(p, s) == Len(p) <= Len(s) /\ SubSeq(s, 1, Len(p)) = p

\* every byte the encoder has written so far, flushed or not
Out == sink \o w.buf

ClosedOK == last.op = "Close" /\ last.ret = NoErr

ConvErrors == {ErrUnsupported, ErrValuer}

\* C7: with a positive column count C the counter of columns left in the
\* row starts at C and always satisfies 0 <= colsLeftInRow <= C, and C
\* itself never changes.
CounterRange ==
    numColumnsPerRow >= 1 =>
        /\ 0 <= colsLeftInRow
        /\ colsLeftInRow <= numColumnsPerRow
        /\ last.op = "NewEncoder" => colsLeftInRow = numColumnsPerRow

C7_CounterInvariant ==
    [](CounterRange) /\ [][numColumnsPerRow' = numColumnsPerRow]_vars

\* a second row has begun: the counter went down to its reset and down again
C7_Witness ==
    /\ numColumnsPerRow = 2
    /\ nFields = 3
    /\ colsLeftInRow = 1
    /\ err = NoErr

\* C1: once an error is latched it never changes, no later call writes to
\* the sink or the buffer or moves the column counter, and every later
\* Close returns the latched error; an append during which the buffered
\* writer fails latches that failure.
C1_ErrorLatching ==
    [][/\ err # NoErr =>
            /\ err' = err
            /\ sink' = sink
            /\ w' = w
            /\ colsLeftInRow' = colsLeftInRow
            /\ last'.op = "Close" => last'.ret = err
       /\ (last'.op = "Append" /\ w.err = NoErr /\ w'.err # NoErr) => err' = w'.err
       /\ (err = NoErr /\ err' # NoErr) => last'.op = "Append"]_vars

\* Close has returned a latched sink error, part of the stream was lost
C1_Witness ==
    /\ numColumnsPerRow = 2
    /\ err = ErrSink
    /\ last.op = "Close"
    /\ last.ret = ErrSink
    /\ nFields >= 2
    /\ sink # <<>>
    /\ sink # logical

\* C2: with C >= 1 columns and no error, after n fields the output holds
\* n \div C newlines and n - n \div C tabs and no other raw newline or tab,
\* does not begin with a terminator, has no tab right before a newline, and
\* ends with a newline iff n is a multiple of C.
C2_RowFraming ==
    (numColumnsPerRow >= 1 /\ err = NoErr) =>
        /\ Count(Out, NL) = nFields \div numColumnsPerRow
        /\ Count(Out, TAB) = nFields - (nFields \div numColumnsPerRow)
        /\ nFields = 0 => Out = <<>>
        /\ nFields > 0 =>
            /\ Out[1] \notin {TAB, NL}
            /\ Out[Len(Out)] = (IF nFields % numColumnsPerRow = 0 THEN NL ELSE TAB)
        /\ \A i \in 1..(Len(Out) - 1) : ~(Out[i] = TAB /\ Out[i + 1] = NL)

\* one row of two fields and the first field of the next
C2_Witness ==
    /\ numColumnsPerRow = 2
    /\ nFields = 3
    /\ err = NoErr
    /\ Count(Out, NL) = 1
    /\ Count(Out, TAB) = 2
    /\ Len(Out) > 12

\* C3: when Close has returned no error the sink holds exactly the wire
\* forms of the appended fields, each followed by its terminator, in append
\* order, and nothing is left in the buffer.
C3_EndToEnd ==
    ClosedOK => (sink = logical /\ w.buf = <<>>)

C3_Witness ==
    /\ ClosedOK
    /\ numColumnsPerRow = 2
    /\ nFields = 3
    /\ Len(sink) > 2 * BufSize
    /\ sink = logical

\* C6: Close with an error latched returns it and touches neither the sink
\* nor the buffer; Close with none latched flushes the buffer and returns
\* the flush error if there is one; either way Close leaves the latched
\* error, which Error reports, and the column counter as they were.  Bytes
\* buffered when an error is latched never reach the sink.
FlushWouldFail ==
    \/ w.err # NoErr
    \/ w.buf # <<>> /\ sinkBudget >= 0 /\ Len(sink) + Len(w.buf) > sinkBudget

C6_Finalize ==
    [][/\ last'.op = "Close" =>
            /\ err' = err
            /\ colsLeftInRow' = colsLeftInRow
            /\ err # NoErr => (last'.ret = err /\ sink' = sink /\ w' = w)
            /\ (err = NoErr /\ ~FlushWouldFail) =>
                    (last'.ret = NoErr /\ sink' = sink \o w.buf /\ w'.buf = <<>>)
            /\ (err = NoErr /\ FlushWouldFail) =>
                    /\ last'.ret # NoErr
                    /\ last'.ret = w'.err
                    /\ IsPrefix(sink, sink')
                    /\ sink' \o w'.buf = sink \o w.buf
       /\ last'.op = "Error" => (last'.ret = err /\ err' = err /\ sink' = sink /\ w' = w)
       /\ err # NoErr => sink' = sink]_vars

\* Close has returned a conversion error and the fields before it stay buffered
C6_Witness ==
    /\ numColumnsPerRow >= 1
    /\ last.op = "Close"
    /\ last.ret \in ConvErrors
    /\ err = last.ret
    /\ w.err = NoErr
    /\ w.buf # <<>>
    /\ IsPrefix(sink, logical) /\ sink # logical

\* C8: AppendValue of a value of an unrecognized type, or of a Valuer whose
\* Value() fails, latches the conversion error and writes nothing: buffer,
\* sink and column counter are as before.
IsUnrecognized(v) == v.kind = "float64"

C8_ConversionFailure ==
    [][\A v \in AppendInputs :
          (err = NoErr /\ (IsUnrecognized(v) \/ (v.valuer /\ v.verr)) /\ AppendValue(v)) =>
              /\ err' = (IF v.valuer /\ v.verr THEN ErrValuer ELSE ErrUnsupported)
              /\ w' = w
              /\ sink' = sink
              /\ colsLeftInRow' = colsLeftInRow]_vars

\* a conversion failed in the middle of a row
C8_Witness ==
    /\ err = ErrUnsupported
    /\ last.op = "Append"
    /\ numColumnsPerRow = 2
    /\ colsLeftInRow = 1
    /\ nFields = 1
    /\ Out = logical

\* C10 as amended: the sink always holds a prefix of the logical stream, and
\* when Close has returned no error it holds all of it, so it ends after a
\* field's terminator (in the middle of a row when the row is incomplete).
C10_SinkPrefix ==
    /\ IsPrefix(sink, logical)
    /\ ClosedOK =>
          /\ sink = logical
          /\ nFields > 0 => sink[Len(sink)] = Term(nFields)

\* a failed write left the sink in the middle of a field
C10_Witness ==
    /\ numColumnsPerRow >= 1
    /\ err = ErrSink
    /\ sink # <<>>
    /\ sink[Len(sink)] \notin {TAB, NL}
    /\ IsPrefix(sink, logical)
    /\ Len(sink) < Len(logical)

\* C10 as claimed: the sink holds a prefix of the logical stream and ends in
\* the middle of a row or field only when Close has not returned without
\* error.
C10_Original ==
    /\ IsPrefix(sink, logical)
    /\ (ClosedOK /\ numColumnsPerRow >= 1) =>
          /\ sink = logical
          /\ nFields % numColumnsPerRow = 0

----------------------------------------------------------------------------
(* Properties of the escaper and the converter *)

Escaped == pc \in {"escaped", "read"} /\ wire.err = NoErr

\* the bytes of the escape table
TableBytes == {0, 8, TAB, NL, 13, 26, BACKSLASH, QUOTE}

\* C4: reading back the escaped form of a present byte sequence b gives
\* exactly b, and a byte outside the escape table is written as it is (each
\* byte of the table takes two bytes, every other byte one).
C4_RoundTrip ==
    /\ (pc = "read" /\ ~conv.b.isnil) =>
          (read.ok /\ ~read.isnil /\ read.b = conv.b.b)
    /\ (Escaped /\ ~conv.b.isnil) =>
          /\ Len(wire.b) = 2 + Len(conv.b.b)
                             + Cardinality({i \in 1..Len(conv.b.b) : conv.b.b[i] \in TableBytes})
          /\ (Len(conv.b.b) = 1 /\ conv.b.b[1] \notin TableBytes) =>
                wire.b = <<QUOTE, conv.b.b[1], QUOTE>>
    /\ (Escaped /\ value.kind = "[]byte" /\ ~value.valuer) =>
          (conv.b.isnil = value.isnil /\ conv.b.b = value.b)

\* a field whose content is backslash, N, quote has been read back
C4_Witness ==
    /\ pc = "read"
    /\ value = BytesV(Slice(<<BACKSLASH, 78, QUOTE>>))
    /\ wire.b = <<QUOTE, BACKSLASH, BACKSLASH, 78, BACKSLASH, QUOTE, QUOTE>>
    /\ read.b = <<BACKSLASH, 78, QUOTE>>

\* C5: an absent (nil) value is escaped to the two bytes \N; every present
\* value is escaped to a field that begins and ends with a double quote,
\* the empty byte sequence and the empty string to exactly "", so no
\* present value is escaped to \N.
IsAbsent(v) == v.kind \in {"nil", "[]byte", "json.RawMessage"} /\ v.isnil

IsEmpty(v) == v.kind \in {"string", "[]byte", "json.RawMessage"} /\ ~v.isnil /\ v.b = <<>>

C5_NullDistinct ==
    Escaped =>
        IF IsAbsent(value)
        THEN wire.b = <<BACKSLASH, 78>>
        ELSE /\ Len(wire.b) >= 2
             /\ wire.b[1] = QUOTE
             /\ wire.b[Len(wire.b)] = QUOTE
             /\ wire.b # <<BACKSLASH, 78>>
             /\ IsEmpty(value) => wire.b = <<QUOTE, QUOTE>>

\* the empty string has been escaped
C5_Witness ==
    /\ pc = "escaped"
    /\ value = StringV(<<>>)
    /\ wire = [b |-> <<QUOTE, QUOTE>>, err |-> NoErr]

\* C9: the layout of a time is chosen from its wall clock in the configured
\* location (its own when none is configured): YYYY-MM-DD at midnight with
\* no nanoseconds, YYYY-MM-DD HH:MM:SS with no nanoseconds, and otherwise
\* YYYY-MM-DD HH:MM:SS, a dot and the 1 to 9 digits of the nanoseconds
\* without their trailing zeros.
IsDigits(s) == \A i \in 1..Len(s) : s[i] \in 48..57

RECURSIVE ParseNum(_)
ParseNum(s) ==
    IF s = <<>> THEN 0 ELSE 10 * ParseNum(SubSeq(s, 1, Len(s) - 1)) + (s[Len(s)] - 48)

RECURSIVE Pow10(_)
Pow10(n) == IF n = 0 THEN 1 ELSE 10 * Pow10(n - 1)

\* days since 1970-01-01 of a civil date
DaysFromCivil(y, m, d) ==
    LET yy  == IF m <= 2 THEN y - 1 ELSE y
        era == yy \div 400
        yoe == yy - era * 400
        doy == (153 * (IF m > 2 THEN m - 3 ELSE m + 9) + 2) \div 5 + d - 1
        doe == yoe * 365 + yoe \div 4 - yoe \div 100 + doy
    IN  era * 146097 + doe - 719468

\* s is YYYY-MM-DD and is the date of day number day
IsDateOf(s, day) ==
    /\ Len(s) = 10
    /\ s[5] = 45 /\ s[8] = 45
    /\ IsDigits(SubSeq(s, 1, 4)) /\ IsDigits(SubSeq(s, 6, 7)) /\ IsDigits(SubSeq(s, 9, 10))
    /\ ParseNum(SubSeq(s, 6, 7)) \in 1..12
    /\ ParseNum(SubSeq(s, 9, 10)) \in 1..31
    /\ DaysFromCivil(ParseNum(SubSeq(s, 1, 4)), ParseNum(SubSeq(s, 6, 7)),
                     ParseNum(SubSeq(s, 9, 10))) = day

\* s is HH:MM:SS and is second sec of the day
IsClockOf(s, sec) ==
    /\ Len(s) = 8
    /\ s[3] = 58 /\ s[6] = 58
    /\ IsDigits(SubSeq(s, 1, 2)) /\ IsDigits(SubSeq(s, 4, 5)) /\ IsDigits(SubSeq(s, 7, 8))
    /\ ParseNum(SubSeq(s, 4, 5)) < 60
    /\ ParseNum(SubSeq(s, 7, 8)) < 60
    /\ 3600 * ParseNum(SubSeq(s, 1, 2)) + 60 * ParseNum(SubSeq(s, 4, 5))
          + ParseNum(SubSeq(s, 7, 8)) = sec

IsDateTimeOf(s, wall) ==
    /\ Len(s) = 19
    /\ IsDateOf(SubSeq(s, 1, 10), wall \div 86400)
    /\ s[11] = 32
    /\ IsClockOf(SubSeq(s, 12, 19), wall % 86400)

\* s is a dot and the digits of nsec nanoseconds without trailing zeros
IsFractionOf(s, nsec) ==
    /\ Len(s) \in 2..10
    /\ s[1] = 46
    /\ IsDigits(Tail(s))
    /\ s[Len(s)] # 48
    /\ ParseNum(Tail(s)) * Pow10(10 - Len(s)) = nsec

C9_TemporalLayout ==
    (pc # "start" /\ value.kind = "time.Time" /\ ~(value.valuer /\ value.verr)) =>
        LET zone == IF ~cfg.isnil /\ ~cfg.locnil THEN cfg.off ELSE value.t.off
            wall == value.t.unix + zone
            out  == conv.b.b
        IN  /\ conv.err = NoErr
            /\ ~conv.b.isnil
            /\ IF wall % 86400 = 0 /\ value.t.nsec = 0
               THEN IsDateOf(out, wall \div 86400)
               ELSE IF value.t.nsec = 0
               THEN IsDateTimeOf(out, wall)
               ELSE /\ Len(out) \in 21..29
                    /\ IsDateTimeOf(SubSeq(out, 1, 19), wall)
                    /\ IsFractionOf(SubSeq(out, 20, Len(out)), value.t.nsec)

\* 23:00 UTC on 2023-12-31 is midnight of 2024-01-01 one hour east
C9_Witness ==
    /\ pc = "converted"
    /\ value = TimeV([unix |-> 1704063600, nsec |-> 0, off |-> 0])
    /\ cfg = InLocation(3600)
    /\ conv.b.b = <<50, 48, 50, 52, 45, 48, 49, 45, 48, 49>>

====
